---------------------------- MODULE Spec2Model ----------------------------
(***************************************************************************)
(* Model of the title identification engine of merovingian (crate imdb):   *)
(* ingestion of the two source files (read_votes, read_titles), the tag    *)
(* index (text_to_tags, build_reverse_index), the snapshot (save,          *)
(* load_index), the store in the index directory (check_source_files,      *)
(* load_or_create_index) and the query (Imdb::lookup,                      *)
(* Counter::most_common).                                                  *)
(*                                                                         *)
(* Conventions.                                                            *)
(*  - A text (Rust String / &str) is a sequence of one-character strings.  *)
(*  - Option<T> is a sequence of length at most one: None is << >> and     *)
(*    Some(x) is <<x>>.                                                    *)
(*  - Result<T> is a record [ok |-> TRUE, val |-> v] or                    *)
(*    [ok |-> FALSE, err |-> <name of the Error variant>].                 *)
(*  - HashMap<K, V> is a function whose DOMAIN is the key set; HashSet<K>  *)
(*    is a set.  The order in which a hash container is iterated is not    *)
(*    fixed by the code: where it can matter it is an explicit argument.   *)
(*  - An f64 score is a fixed-point number, an integer count of            *)
(*    1/Scale units.                                                       *)
(***************************************************************************)
EXTENDS Integers, Sequences, FiniteSets, TLC

VARIABLES
    ratingsFile,  \* rows of title.ratings.tsv.gz, as the csv reader yields them
    basicsFile,   \* rows of title.basics.tsv.gz
    imdb,         \* Option<Imdb>: the Imdb value the process holds
    status,       \* outcome of the last constructor call
    snapshot,     \* Option<bytes>: the file index.gz
    query,        \* Option<[text, year]>: arguments of the last lookup
    counter,      \* the Counter built by the last lookup
    common,       \* what most_common returned to the last lookup
    result,       \* outcome of the last lookup
    call,         \* the last call made on the store, or what happened to its files
    requests,     \* the source files the last call sent a request for
    fault,        \* the disk or network step that failed during the last call
    tagText,      \* Option<text>: a text handed to text_to_tags
    tagList,      \* Option<tags>: the tags text_to_tags filled in for tagText
    filename,     \* Option<text>: a file name handed to parse_movie
    parsed        \* Option<[title, year]>: what parse_movie returned for filename

tagVars == <<tagText, tagList>>

parseVars == <<filename, parsed>>

vars == <<ratingsFile, basicsFile, imdb, status, snapshot, query, counter, common,
          result, call, requests, fault, tagText, tagList, filename, parsed>>

None == << >>
Some(x) == <<x>>
IsSome(o) == o # << >>
Unwrap(o) == o[1]

Ok(v) == [ok |-> TRUE, val |-> v]
Err(e) == [ok |-> FALSE, err |-> e]

Max(a, b) == IF a >= b THEN a ELSE b
Min(a, b) == IF a <= b THEN a ELSE b
Abs(x) == IF x < 0 THEN -x ELSE x

-----------------------------------------------------------------------------
(* Characters and numbers *)

Uppers == <<"A","B","C","D","E","F","G","H","I","J","K","L","M",
            "N","O","P","Q","R","S","T","U","V","W","X","Y","Z">>
Lowers == <<"a","b","c","d","e","f","g","h","i","j","k","l","m",
            "n","o","p","q","r","s","t","u","v","w","x","y","z">>
Digits == <<"0","1","2","3","4","5","6","7","8","9">>

\* char::to_lowercase on the ASCII letters; every other character of the
\* model's texts is its own lower case.
char_to_lowercase(c) ==
    IF \E i \in 1..26 : Uppers[i] = c
    THEN Lowers[CHOOSE i \in 1..26 : Uppers[i] = c]
    ELSE c

to_lowercase(text) == [i \in 1..Len(text) |-> char_to_lowercase(text[i])]

IsDigit(c) == \E i \in 1..10 : Digits[i] = c
DigitVal(c) == (CHOOSE i \in 1..10 : Digits[i] = c) - 1

\* The largest values of u8 and u16.  u32::MAX is 4294967295; TLC's
\* integers end at 2^31 - 1, which U32Max therefore stands for: no id and no
\* vote count of the model's files comes near either number.
U8Max == 255
U16Max == 65535
U32Max == 2147483647

RECURSIVE ParseDigits(_, _, _)
\* the value of the digit string s read after the value acc, None on a
\* character that is no digit and on a value above max (a PosOverflow)
ParseDigits(s, acc, max) ==
    IF s = << >> THEN Some(acc)
    ELSE IF ~IsDigit(Head(s)) THEN None
    ELSE LET v == acc * 10 + DigitVal(Head(s))
         IN IF v > max THEN None ELSE ParseDigits(Tail(s), v, max)

\* str::parse::<uN>(): None stands for Err(ParseIntError)
ParseUnsigned(s, max) ==
    IF s = << >> THEN None ELSE ParseDigits(s, 0, max)

NullField == <<"\\", "N">>

\* parse_none: "\N" is None and so is everything that does not parse
parse_none(field, max) ==
    IF field = NullField THEN None ELSE ParseUnsigned(field, max)

\* record[0][2..].parse(): the id without its two-character prefix
ParseId(field) == ParseUnsigned(SubSeq(field, 3, Len(field)), U32Max)

-----------------------------------------------------------------------------
(* HashMap *)

EmptyMap == << >>
Insert(map, k, v) == [x \in (DOMAIN map) \cup {k} |-> IF x = k THEN v ELSE map[x]]

\* the sequences that list every element of the set S once: the orders in
\* which a hash container holding S can be iterated
Orders(S) ==
    {o \in [1..Cardinality(S) -> S] : \A i, j \in 1..Cardinality(S) : o[i] = o[j] => i = j}

-----------------------------------------------------------------------------
(* Corpus reader: read_votes and read_titles *)

\* "50 is a totally arbitrary cutoff for the number of votes"
VoteFloor == 50

\* What reader.records() yields where the gzip stream of the file breaks off
\* (a file that was created but not written to its end): Err instead of a record.
StreamError == [err |-> "Csv"]

IsStreamError(record) == "err" \in DOMAIN record

\* mutant: the cutoff has lost a digit
VotesKeptFrom5(votes) == votes >= 5

VotesKept(votes) == votes >= VoteFloor

\* mutant: a vote count that does not parse skips the row
RECURSIVE read_votes_rows_skipping(_, _)
read_votes_rows_skipping(rows, votes_table) ==
    IF rows = << >> THEN Ok(votes_table)
    ELSE LET record == Head(rows)
             id == ParseId(record.tconst)
             votes == ParseUnsigned(record.numVotes, U32Max)
         IN  IF IsStreamError(record) THEN Err("Csv")
             ELSE IF ~IsSome(id) THEN Err("ParseIntError")
             ELSE IF ~IsSome(votes) THEN read_votes_rows_skipping(Tail(rows), votes_table)
             ELSE read_votes_rows_skipping(Tail(rows),
                      IF VotesKept(Unwrap(votes))
                      THEN Insert(votes_table, Unwrap(id), Unwrap(votes))
                      ELSE votes_table)

\* one pass of the loop of read_votes over the record at the head of rows
RECURSIVE read_votes_rows(_, _)
read_votes_rows(rows, votes_table) ==
    IF rows = << >> THEN Ok(votes_table)
    ELSE LET record == Head(rows)
             id == ParseId(record.tconst)
             votes == ParseUnsigned(record.numVotes, U32Max)
         IN  IF IsStreamError(record) THEN Err("Csv")
             ELSE IF ~IsSome(id) THEN Err("ParseIntError")
             ELSE IF ~IsSome(votes) THEN Err("ParseIntError")
             ELSE read_votes_rows(Tail(rows),
                      IF VotesKept(Unwrap(votes))
                      THEN Insert(votes_table, Unwrap(id), Unwrap(votes))
                      ELSE votes_table)

\* file is Option<rows>: File::open fails on a missing file
read_votes(file) ==
    IF ~IsSome(file) THEN Err("Io") ELSE read_votes_rows(Unwrap(file), EmptyMap)

\* mutant: series are taken for TV movies
TitleKindOfWithSeries(kind) ==
    CASE kind = "movie" -> Some("Movie")
      [] kind = "tvMovie" -> Some("TvMovie")
      [] kind = "tvSeries" -> Some("TvMovie")
      [] kind = "video" -> Some("Video")
      [] kind = "short" -> Some("Short")
      [] OTHER -> None

TitleKindOf(kind) ==
    CASE kind = "movie" -> Some("Movie")
      [] kind = "tvMovie" -> Some("TvMovie")
      [] kind = "video" -> Some("Video")
      [] kind = "short" -> Some("Short")
      [] OTHER -> None

\* The body of the loop of read_titles for one record that was read: "continue"
\* (the row is skipped), "err" (the ? operator returns the error) or "insert".
read_titles_row(record, votes_table) ==
    LET adult == parse_none(record.isAdult, U8Max)
        kind == TitleKindOf(record.titleType)
        year == parse_none(record.startYear, U16Max)
        runtime == parse_none(record.runtimeMinutes, U16Max)
        id == ParseId(record.tconst)
    IN  IF ~IsSome(adult) THEN [act |-> "continue"]
        ELSE IF Unwrap(adult) = 1 THEN [act |-> "continue"]
        ELSE IF ~IsSome(kind) THEN [act |-> "continue"]
        ELSE IF ~IsSome(year) THEN [act |-> "continue"]
        ELSE IF ~IsSome(runtime) THEN [act |-> "continue"]
        ELSE IF Unwrap(year) = 0 \/ Unwrap(runtime) = 0 THEN [act |-> "continue"]
        ELSE IF ~IsSome(id) THEN [act |-> "err"]
        ELSE IF Unwrap(id) \notin DOMAIN votes_table THEN [act |-> "continue"]
        ELSE [act |-> "insert",
              title |-> [id |-> Unwrap(id),
                         year |-> Unwrap(year),
                         runtime |-> Unwrap(runtime),
                         primary_title |-> record.primaryTitle,
                         original_title |->
                             IF record.primaryTitle # record.originalTitle
                             THEN Some(record.originalTitle) ELSE None,
                         kind |-> Unwrap(kind),
                         votes |-> votes_table[Unwrap(id)]]]

RECURSIVE read_titles_rows(_, _, _)
read_titles_rows(rows, votes_table, titles) ==
    IF rows = << >> THEN Ok(titles)
    ELSE IF IsStreamError(Head(rows)) THEN Err("Csv")
    ELSE LET step == read_titles_row(Head(rows), votes_table)
         IN  CASE step.act = "continue" -> read_titles_rows(Tail(rows), votes_table, titles)
               [] step.act = "err" -> Err("ParseIntError")
               [] step.act = "insert" ->
                    read_titles_rows(Tail(rows), votes_table,
                                     Insert(titles, step.title.id, step.title))

read_titles(file, votes_table) ==
    IF ~IsSome(file) THEN Err("Io") ELSE read_titles_rows(Unwrap(file), votes_table, EmptyMap)

-----------------------------------------------------------------------------
(* Tokenizer: text_to_tags *)

\* char::is_whitespace and char::is_ascii_control among the model's characters
Whitespace == {" ", "\t", "\n"}
AsciiControl == {"\t", "\n"}
Punctuation == {"/", "<", ">", ":", "\"", "\\", "|", "?", "*",
                "_", "-", ".", ",", "'", "(", ")"}

tag_splitter(c) == c \in Whitespace \/ c \in AsciiControl \/ c \in Punctuation

Stopwords == { <<"a">>, <<"a","n">>, <<"t","h","e">>, <<"o","f">>, <<"i","n">>,
               <<"o","n">>, <<"t","o">>, <<"t">>, <<"s">> }

\* mutant: the one-letter stopwords are kept
ignored_from_two(tag) == tag \in Stopwords /\ Len(tag) > 1

ignored(tag) == tag \in Stopwords

\* str::split(tag_splitter): the fragments between split characters, the empty
\* ones included; cur is the fragment being read
RECURSIVE Split(_, _)
Split(text, cur) ==
    IF text = << >> THEN <<cur>>
    ELSE IF tag_splitter(Head(text)) THEN <<cur>> \o Split(Tail(text), << >>)
    ELSE Split(Tail(text), Append(cur, Head(text)))

\* Vec::dedup: removes consecutive repeated elements
RECURSIVE Dedup(_)
Dedup(s) ==
    IF Len(s) <= 1 THEN s
    ELSE IF s[1] = s[2] THEN Dedup(Tail(s))
    ELSE <<s[1]>> \o Dedup(Tail(s))

\* mutant: dedup is called before the empty fragments and the stopwords are dropped
text_to_tags_dedup_first(text) ==
    SelectSeq(Dedup(Split(to_lowercase(text), << >>)),
              LAMBDA tag : tag # << >> /\ ~(tag \in Stopwords))

text_to_tags(text) ==
    Dedup(SelectSeq(Split(to_lowercase(text), << >>),
                    LAMBDA tag : tag # << >> /\ ~ignored(tag)))

-----------------------------------------------------------------------------
(* Inverted index builder: build_reverse_index *)

\* mutant: the bucket of the tag is replaced by a new one
AddToBucketAnew(index, tag, id) == Insert(index, tag, {id})

\* index.entry(tag).or_insert_with(HashSet::new).insert(id)
AddToBucket(index, tag, id) ==
    Insert(index, tag, IF tag \in DOMAIN index THEN index[tag] \cup {id} ELSE {id})

RECURSIVE IndexTags(_, _, _)
IndexTags(index, tags, id) ==
    IF tags = << >> THEN index
    ELSE IndexTags(AddToBucket(index, Head(tags), id), Tail(tags), id)

\* the closure index_title of build_reverse_index
index_title(index, text, id) == IndexTags(index, text_to_tags(text), id)

\* mutant: the original title is not indexed
IndexOneTitlePrimaryOnly(index, title) ==
    index_title(index, title.primary_title, title.id)

\* mutant: the year of the title is put in the buckets in place of its id
IndexOneTitleByYear(index, title) ==
    LET withPrimary == index_title(index, title.primary_title, title.year)
    IN  IF IsSome(title.original_title)
           /\ title.primary_title # Unwrap(title.original_title)
        THEN index_title(withPrimary, Unwrap(title.original_title), title.year)
        ELSE withPrimary

\* the body of the loop over titles.values() for one title
IndexOneTitle(index, title) ==
    LET withPrimary == index_title(index, title.primary_title, title.id)
    IN  IF IsSome(title.original_title)
           /\ title.primary_title # Unwrap(title.original_title)
        THEN index_title(withPrimary, Unwrap(title.original_title), title.id)
        ELSE withPrimary

RECURSIVE BuildFrom(_, _, _)
BuildFrom(index, titles, order) ==
    IF order = << >> THEN index
    ELSE BuildFrom(IndexOneTitle(index, titles[Head(order)]), titles, Tail(order))

\* order is the order in which titles.values() yields the records
build_reverse_index(titles, order) == BuildFrom(EmptyMap, titles, order)

-----------------------------------------------------------------------------
(* Scores: NonNan(f64) as fixed point, and strsim::jaro *)

\* A score s is the integer s * Scale.  strsim::jaro returns a finite number
\* of [0, 1], so NonNan::new never sees a NaN and NonNan::cmp never unwraps
\* a None.
Scale == 1000000

\* The loop of jaro over the characters of a: i is the (one-based) position
\* in a, consumed the (zero-based) positions of b already matched, and
\* b_match_index the position of the last match.
RECURSIVE JaroLoop(_, _, _, _, _, _, _)
JaroLoop(a, b, i, consumed, matches, transpositions, b_match_index) ==
    IF i > Len(a) THEN [matches |-> matches, transpositions |-> transpositions]
    ELSE LET search_range == (Max(Len(a), Len(b)) \div 2) - 1
             min_bound == IF i - 1 > search_range THEN i - 1 - search_range ELSE 0
             max_bound == Min(Len(b) - 1, i - 1 + search_range)
             hits == {j \in min_bound..max_bound : b[j + 1] = a[i] /\ j \notin consumed}
         IN  IF hits = {}
             THEN JaroLoop(a, b, i + 1, consumed, matches, transpositions, b_match_index)
             ELSE LET j == CHOOSE x \in hits : \A y \in hits : x <= y
                  IN  JaroLoop(a, b, i + 1, consumed \cup {j}, matches + 1,
                               IF j < b_match_index THEN transpositions + 1
                               ELSE transpositions,
                               j)

jaro(a, b) ==
    IF a = b THEN Scale
    ELSE IF Len(a) = 0 \/ Len(b) = 0 \/ (Len(a) = 1 /\ Len(b) = 1) THEN 0
    ELSE LET r == JaroLoop(a, b, 1, {}, 0, 0, 0)
         IN  IF r.matches = 0 THEN 0
             ELSE ((Scale * r.matches) \div Len(a)
                   + (Scale * r.matches) \div Len(b)
                   + (Scale * (r.matches - r.transpositions)) \div r.matches) \div 3

\* score *= 0.85, score *= 0.80 and the margin 0.01, in hundredths
YearPenalty == 85
KindPenalty == 80
TieMargin == 1
YearWindow == 1

\* mutant: the year penalty is applied whenever the query has a year
scoring_func_year_always(title, text, year) ==
    LET base == IF ~IsSome(title.original_title)
                THEN jaro(to_lowercase(title.primary_title), text)
                ELSE Max(jaro(to_lowercase(title.primary_title), text),
                         jaro(to_lowercase(Unwrap(title.original_title)), text))
        yeared == IF IsSome(year)
                  THEN (base * YearPenalty) \div 100 ELSE base
    IN  IF title.kind = "Movie" THEN yeared ELSE (yeared * KindPenalty) \div 100

\* the closure scoring_func of lookup
scoring_func(title, text, year) ==
    LET base == IF ~IsSome(title.original_title)
                THEN jaro(to_lowercase(title.primary_title), text)
                ELSE Max(jaro(to_lowercase(title.primary_title), text),
                         jaro(to_lowercase(Unwrap(title.original_title)), text))
        yeared == IF IsSome(year) /\ title.year # Unwrap(year)
                  THEN (base * YearPenalty) \div 100 ELSE base
    IN  IF title.kind = "Movie" THEN yeared ELSE (yeared * KindPenalty) \div 100

-----------------------------------------------------------------------------
(* Counter *)

\* Counter::add
add(inner, key) ==
    Insert(inner, key, (IF key \in DOMAIN inner THEN inner[key] ELSE 0) + 1)

\* mutant: a key that ties with the maximum is not pushed
most_common_step_no_tie(acc, key, count) ==
    IF count > acc.most_count
    THEN [most_common |-> <<key>>, most_count |-> count]
    ELSE acc

\* The body of the loop of most_common for one (key, count); acc holds the
\* locals most_common and most_count.
most_common_step(acc, key, count) ==
    IF count = acc.most_count
    THEN [most_common |-> Append(acc.most_common, key), most_count |-> acc.most_count]
    ELSE IF count >= acc.most_count
    THEN [most_common |-> <<key>>, most_count |-> count]
    ELSE acc

RECURSIVE MostCommonLoop(_, _, _)
MostCommonLoop(inner, order, acc) ==
    IF order = << >> THEN acc.most_common
    ELSE MostCommonLoop(inner, Tail(order),
                        most_common_step(acc, Head(order), inner[Head(order)]))

\* Counter::most_common; order is the order in which self.inner.iter()
\* yields the keys
most_common(inner, order) ==
    MostCommonLoop(inner, order, [most_common |-> << >>, most_count |-> 0])

-----------------------------------------------------------------------------
(* Lookup *)

\* mutant: the difference of the years without .abs()
WithinYearWindowNoAbs(year, title) ==
    ~(IsSome(year) /\ Unwrap(year) - title.year > YearWindow)

\* "only keep titles whose year is within one of the target year".  Both
\* years are i32 here; a query year is what parse_movie reads from a
\* four-digit token, so the subtraction stays far from the ends of i32.
WithinYearWindow(year, title) ==
    ~(IsSome(year) /\ Abs(Unwrap(year) - title.year) > YearWindow)

\* mutant: a tag of the query matches the keys that begin with it
IndexGetPrefix(index, tag) ==
    LET keys == {k \in DOMAIN index : Len(tag) <= Len(k) /\ SubSeq(k, 1, Len(tag)) = tag}
    IN  IF keys = {} THEN None ELSE Some(UNION {index[k] : k \in keys})

\* self.index.get(&tag)
IndexGet(index, tag) == IF tag \in DOMAIN index THEN Some(index[tag]) ELSE None

\* the loop over one bucket: every id of the bucket that passes the year
\* window is added once
RECURSIVE CountBucket(_, _, _, _)
CountBucket(inner, titles, ids, year) ==
    IF ids = {} THEN inner
    ELSE LET title_id == CHOOSE x \in ids : TRUE
         IN  CountBucket(IF WithinYearWindow(year, titles[title_id])
                         THEN add(inner, title_id) ELSE inner,
                         titles, ids \ {title_id}, year)

\* the loop over the tags of the query
RECURSIVE CountTags(_, _, _, _)
CountTags(inner, db, tags, year) ==
    IF tags = << >> THEN inner
    ELSE LET title_ids == IndexGet(db.index, Head(tags))
         IN  CountTags(IF IsSome(title_ids)
                       THEN CountBucket(inner, db.titles, Unwrap(title_ids), year)
                       ELSE inner,
                       db, Tail(tags), year)

\* &self.titles[title_id] panics when title_id is no key of the table
LookupPanics(db, tags) ==
    \E i \in 1..Len(tags) :
        /\ tags[i] \in DOMAIN db.index
        /\ \E id \in db.index[tags[i]] : id \notin DOMAIN db.titles

\* slice::sort_by_key(|m| Reverse(m.key)): a stable sort, descending.  x goes
\* behind every element whose key is not below its own.
RECURSIVE InsertDesc(_, _)
InsertDesc(sorted, x) ==
    IF sorted = << >> THEN <<x>>
    ELSE IF Head(sorted).key >= x.key THEN <<Head(sorted)>> \o InsertDesc(Tail(sorted), x)
    ELSE <<x>> \o sorted

RECURSIVE SortDesc(_, _)
SortDesc(done, todo) ==
    IF todo = << >> THEN done ELSE SortDesc(InsertDesc(done, Head(todo)), Tail(todo))

\* mutant: only the matches whose score equals that of best are taken
RECURSIVE TakeWhileExactTie(_, _)
TakeWhileExactTie(best, rest) ==
    IF rest = << >> THEN << >>
    ELSE IF best.score = Head(rest).score
    THEN <<Head(rest)>> \o TakeWhileExactTie(best, Tail(rest))
    ELSE << >>

\* Iterator::take_while over the matches behind best
RECURSIVE TakeWhileInBand(_, _)
TakeWhileInBand(best, rest) ==
    IF rest = << >> THEN << >>
    ELSE IF Abs(best.score - Head(rest).score) * 100 <= TieMargin * Scale
    THEN <<Head(rest)>> \o TakeWhileInBand(best, Tail(rest))
    ELSE << >>

\* the matches of lookup, sorted by score descending
SortedMatches(db, text, year, commonIds) ==
    SortDesc(<< >>, [i \in 1..Len(commonIds) |->
        LET score == scoring_func(db.titles[commonIds[i]], text, year)
        IN  [score |-> score, key |-> score, title |-> commonIds[i]]])

\* mutant: best is not pushed
CandidatesWithoutBest(matches) ==
    IF matches = << >> THEN << >>
    ELSE TakeWhileInBand(Head(matches), Tail(matches))

\* the candidates of lookup: the matches in the band of best, then best
Candidates(matches) ==
    IF matches = << >> THEN << >>
    ELSE Append(TakeWhileInBand(Head(matches), Tail(matches)), Head(matches))

\* candidates.sort_by_key(|m| Reverse(m.title.votes()))
ByVotes(db, candidates) ==
    SortDesc(<< >>, [i \in 1..Len(candidates) |->
        [score |-> candidates[i].score,
         key |-> db.titles[candidates[i].title].votes,
         title |-> candidates[i].title]])

\* the end of lookup, from the result of most_common on: Option<id>
PickBest(db, text, year, commonIds) ==
    LET candidates == ByVotes(db, Candidates(SortedMatches(db, text, year, commonIds)))
    IN  IF candidates = << >> THEN None ELSE Some(Head(candidates).title)

-----------------------------------------------------------------------------
(* Snapshot store: save and load_index *)

RECURSIVE SetToSeq(_)
SetToSeq(S) ==
    IF S = {} THEN << >>
    ELSE LET x == CHOOSE y \in S : TRUE IN <<x>> \o SetToSeq(S \ {x})

\* bincode::serialize_into of an Imdb: each map as its length followed by its
\* (key, value) entries, a bucket being the sequence of its ids
serialize(db) ==
    LET ids == SetToSeq(DOMAIN db.titles)
        tags == SetToSeq(DOMAIN db.index)
    IN  <<  <<Len(ids)>>  >>
        \o [i \in 1..Len(ids) |-> <<ids[i], db.titles[ids[i]]>>]
        \o <<  <<Len(tags)>>  >>
        \o [i \in 1..Len(tags) |-> <<tags[i], SetToSeq(db.index[tags[i]])>>]

RECURSIVE CollectMap(_, _)
CollectMap(map, entries) ==
    IF entries = << >> THEN map
    ELSE CollectMap(Insert(map, Head(entries)[1], Head(entries)[2]), Tail(entries))

\* mutant: a stream that ends early yields the entries that are there
ReadMapToEnd(bytes, at) ==
    IF at > Len(bytes) THEN Ok([entries |-> << >>, next |-> at])
    ELSE LET n == bytes[at][1]
         IN  Ok([entries |-> SubSeq(bytes, at + 1, Min(at + n, Len(bytes))),
                 next |-> at + n + 1])

\* a map is read from position at: its length, then that many entries; the
\* stream ending before the last of them is an error
ReadMap(bytes, at) ==
    IF at > Len(bytes) THEN Err("Bincode")
    ELSE LET n == bytes[at][1]
         IN  IF at + n > Len(bytes) THEN Err("Bincode")
             ELSE Ok([entries |-> SubSeq(bytes, at + 1, at + n), next |-> at + n + 1])

\* mutant: one id is read from each bucket
BucketsOfOne(entries) ==
    [i \in 1..Len(entries) |-> <<entries[i][1], {entries[i][2][1]}>>]

\* the entries of the index, each bucket collected into a HashSet
Buckets(entries) ==
    [i \in 1..Len(entries) |->
        <<entries[i][1], {entries[i][2][j] : j \in 1..Len(entries[i][2])}>>]

\* mutant: the last entry of the title table is not read
deserialize_short(bytes) ==
    LET titles == ReadMap(bytes, 1)
    IN  IF ~titles.ok THEN titles
        ELSE LET index == ReadMap(bytes, titles.val.next)
             IN  IF ~index.ok THEN index
                 ELSE Ok([titles |-> CollectMap(EmptyMap,
                                        SubSeq(titles.val.entries, 1,
                                               Len(titles.val.entries) - 1)),
                          index |-> CollectMap(EmptyMap, Buckets(index.val.entries))])

\* bincode::deserialize_from: the maps and sets are collected entry by entry
deserialize(bytes) ==
    LET titles == ReadMap(bytes, 1)
    IN  IF ~titles.ok THEN titles
        ELSE LET index == ReadMap(bytes, titles.val.next)
             IN  IF ~index.ok THEN index
                 ELSE Ok([titles |-> CollectMap(EmptyMap, titles.val.entries),
                          index |-> CollectMap(EmptyMap, Buckets(index.val.entries))])

\* file is Option<bytes>: File::open fails on a missing file
load_index(file) ==
    IF ~IsSome(file) THEN Err("Io") ELSE deserialize(Unwrap(file))

\* Imdb::save on the file at path: the result and the file afterwards.  disk
\* is how the disk behaves: File::create fails ("create"), the write stops
\* after cut items ("write"), or all is written.
save(db, file, disk, cut) ==
    CASE disk = "create" -> [res |-> Err("Io"), file |-> file]
      [] disk = "write" -> [res |-> Err("Bincode"),
                            file |-> Some(SubSeq(serialize(db), 1, cut))]
      [] OTHER -> [res |-> Ok(TRUE), file |-> Some(serialize(db))]

\* the two reads of create_index: Result<HashMap<u32, Title>>
ReadSources(ratings, basics) ==
    LET votes_table == read_votes(ratings)
    IN  IF ~votes_table.ok THEN votes_table ELSE read_titles(basics, votes_table.val)

\* Imdb::create_index; order is the order in which the title table is iterated
\* The two passes with the vote floor and the accepted kinds as arguments:
\* read_votes with floor in the place of 50, read_titles with a row skipped
\* unless its kind is one of kinds.
AcceptedKinds == {"movie", "tvMovie", "video", "short"}

\* mutant: the comparison with the floor is turned around
VotesKeptUnder(votes, floor) == votes < floor

VotesKeptAt(votes, floor) == votes >= floor

RECURSIVE read_votes_rows_at(_, _, _)
read_votes_rows_at(rows, votes_table, floor) ==
    IF rows = << >> THEN Ok(votes_table)
    ELSE LET record == Head(rows)
             id == ParseId(record.tconst)
             votes == ParseUnsigned(record.numVotes, U32Max)
         IN  IF IsStreamError(record) THEN Err("Csv")
             ELSE IF ~IsSome(id) THEN Err("ParseIntError")
             ELSE IF ~IsSome(votes) THEN Err("ParseIntError")
             ELSE read_votes_rows_at(Tail(rows),
                      IF VotesKeptAt(Unwrap(votes), floor)
                      THEN Insert(votes_table, Unwrap(id), Unwrap(votes))
                      ELSE votes_table,
                      floor)

read_titles_row_among(record, votes_table, kinds) ==
    LET adult == parse_none(record.isAdult, U8Max)
        kind == IF record.titleType \in kinds THEN TitleKindOf(record.titleType) ELSE None
        year == parse_none(record.startYear, U16Max)
        runtime == parse_none(record.runtimeMinutes, U16Max)
        id == ParseId(record.tconst)
    IN  IF ~IsSome(adult) THEN [act |-> "continue"]
        ELSE IF Unwrap(adult) = 1 THEN [act |-> "continue"]
        ELSE IF ~IsSome(kind) THEN [act |-> "continue"]
        ELSE IF ~IsSome(year) THEN [act |-> "continue"]
        ELSE IF ~IsSome(runtime) THEN [act |-> "continue"]
        ELSE IF Unwrap(year) = 0 \/ Unwrap(runtime) = 0 THEN [act |-> "continue"]
        ELSE IF ~IsSome(id) THEN [act |-> "err"]
        ELSE IF Unwrap(id) \notin DOMAIN votes_table THEN [act |-> "continue"]
        ELSE [act |-> "insert",
              title |-> [id |-> Unwrap(id),
                         year |-> Unwrap(year),
                         runtime |-> Unwrap(runtime),
                         primary_title |-> record.primaryTitle,
                         original_title |->
                             IF record.primaryTitle # record.originalTitle
                             THEN Some(record.originalTitle) ELSE None,
                         kind |-> Unwrap(kind),
                         votes |-> votes_table[Unwrap(id)]]]

RECURSIVE read_titles_rows_among(_, _, _, _)
read_titles_rows_among(rows, votes_table, titles, kinds) ==
    IF rows = << >> THEN Ok(titles)
    ELSE IF IsStreamError(Head(rows)) THEN Err("Csv")
    ELSE LET step == read_titles_row_among(Head(rows), votes_table, kinds)
         IN  CASE step.act = "continue" ->
                    read_titles_rows_among(Tail(rows), votes_table, titles, kinds)
               [] step.act = "err" -> Err("ParseIntError")
               [] step.act = "insert" ->
                    read_titles_rows_among(Tail(rows), votes_table,
                                           Insert(titles, step.title.id, step.title), kinds)

\* read_votes, then read_titles, with the floor and the kinds given
ReadSourcesWith(ratings, basics, floor, kinds) ==
    IF ~IsSome(ratings) THEN Err("Io")
    ELSE LET votes_table == read_votes_rows_at(Unwrap(ratings), EmptyMap, floor)
         IN  IF ~votes_table.ok THEN votes_table
             ELSE IF ~IsSome(basics) THEN Err("Io")
             ELSE read_titles_rows_among(Unwrap(basics), votes_table.val, EmptyMap, kinds)

create_index(ratings, basics, order) ==
    LET titles == ReadSources(ratings, basics)
    IN  IF ~titles.ok THEN titles
        ELSE Ok([titles |-> titles.val,
                 index |-> build_reverse_index(titles.val, order)])

-----------------------------------------------------------------------------
(* File names: parse.rs *)

QUALITY ==
    {<<"2","1","6","0","p">>, <<"1","0","8","0","p">>, <<"7","2","0","p">>,
     <<"4","8","0","p">>, <<"3","6","0","p">>, <<"2","4","0","p">>}

VIDEO_FORMAT ==
    {<<"x","v","i","d">>, <<"d","i","v","x">>, <<"h","2","6","4">>, <<"x","2","6","4">>,
     <<"h","2","6","5">>, <<"x","2","6","5">>, <<"1","0","b","i","t">>}

AUDIO_FORMAT ==
    {<<"a","c","3">>, <<"a","a","c">>, <<"a","a","c","2">>, <<"d","d","5">>,
     <<"d","d","2">>}

ALL == QUALITY \cup VIDEO_FORMAT \cup AUDIO_FORMAT

\* the characters parse_filename splits at
FilenameSeparators == {" ", ".", "_", "-", ":", "(", ")", "[", "]"}

\* tokens.push(text.to_lowercase()) unless text is empty
PushToken(text) == IF text = << >> THEN << >> ELSE <<to_lowercase(text)>>

\* the loop of parse_filename; text is name[pos..idx]
RECURSIVE parse_filename_from(_, _)
parse_filename_from(name, text) ==
    IF name = << >> THEN PushToken(text)
    ELSE IF Head(name) \in FilenameSeparators
         THEN PushToken(text) \o parse_filename_from(Tail(name), << >>)
         ELSE parse_filename_from(Tail(name), Append(text, Head(name)))

parse_filename(name) == parse_filename_from(name, << >>)

is_year(token) == Len(token) = 4 /\ \A i \in 1..4 : IsDigit(token[i])

\* [&str]::join(" ")
RECURSIVE Join(_)
Join(tokens) ==
    IF tokens = << >> THEN << >>
    ELSE IF Len(tokens) = 1 THEN tokens[1]
    ELSE tokens[1] \o <<" ">> \o Join(Tail(tokens))

SetMin(S) == CHOOSE x \in S : \A y \in S : x <= y
SetMax(S) == CHOOSE x \in S : \A y \in S : x >= y

\* the first index in tokens of a metadata token, Len(tokens) + 1 when there
\* is none (indices start at 1)
FirstMetadataToken(tokens) ==
    LET found == {idx \in 1..Len(tokens) : tokens[idx] \in ALL}
    IN  IF found = {} THEN Len(tokens) + 1 ELSE SetMin(found)

\* the indices of the tokens that are years
YearCandidates(tokens) == {idx \in 1..Len(tokens) : is_year(tokens[idx])}

\* parse_movie(filename) -> (String, Option<i32>)
parse_movie(name) ==
    LET tokens == parse_filename(name)
        year_candidates == YearCandidates(tokens)
        first_metadata_token == FirstMetadataToken(tokens)
        whole == [title |-> Join(SubSeq(tokens, 1, first_metadata_token - 1)),
                  year |-> None]
    IN  IF year_candidates = {} THEN whole
        ELSE LET year_idx == SetMax(year_candidates)
                 min_idx == Min(year_idx, first_metadata_token)
             IN  IF min_idx > 1
                 THEN [title |-> Join(SubSeq(tokens, 1, min_idx - 1)),
                       year |-> Some(Unwrap(ParseUnsigned(tokens[year_idx], U32Max)))]
                 ELSE whole

-----------------------------------------------------------------------------
(* Source files and the store: check_source_files and load_or_create_index *)

\* A call meets at most one failing disk or network step, since each of them
\* makes the call return: a fault is <<file, step>>, the step that fails if the
\* call comes to it, and NoFaults when none does.
NoFaults == <<"none", "none">>

\* how the step of a call on file goes
FaultAt(failing, file) == IF failing[1] = file THEN failing[2] ELSE "ok"

\* download_file to a missing dest: File::create fails ("create"), the request
\* fails and leaves the file just created ("send"), the copy stops after cut
\* rows ("copy"), or the remote file is copied whole.
download_file(remote, net, cut) ==
    CASE net = "create" -> [res |-> Err("Io"), file |-> None, sent |-> FALSE]
      [] net = "send" -> [res |-> Err("Reqwest"), file |-> Some(<<StreamError>>),
                          sent |-> TRUE]
      [] net = "copy" -> [res |-> Err("Reqwest"),
                          file |-> Some(Append(SubSeq(remote, 1, Min(cut, Len(remote))),
                                               StreamError)),
                          sent |-> TRUE]
      [] OTHER -> [res |-> Ok(TRUE), file |-> Some(remote), sent |-> TRUE]

\* mutant: the file is fetched whether it exists or not
download_file_always(dest, remote, net, cut) == download_file(remote, net, cut)

download_file_if_missing(dest, remote, net, cut) ==
    IF ~IsSome(dest) THEN download_file(remote, net, cut)
    ELSE [res |-> Ok(TRUE), file |-> dest, sent |-> FALSE]

\* check_source_files: basics first, then ratings
check_source_files(fs, remote, failing, cut) ==
    LET b == download_file_if_missing(fs.basics, remote.basics,
                                      FaultAt(failing, "basics"), cut)
    IN  IF ~b.res.ok
        THEN [res |-> b.res, basics |-> b.file, ratings |-> fs.ratings,
              requests |-> IF b.sent THEN {"basics"} ELSE {}]
        ELSE LET r == download_file_if_missing(fs.ratings, remote.ratings,
                                               FaultAt(failing, "ratings"), cut)
             IN  [res |-> r.res, basics |-> b.file, ratings |-> r.file,
                  requests |-> (IF b.sent THEN {"basics"} ELSE {})
                               \cup (IF r.sent THEN {"ratings"} ELSE {})]

\* mutant: the index that was built is returned without being saved
create_unsaved(fs, env) ==
    LET created == create_index(fs.ratings, fs.basics, env.order)
    IN  IF ~created.ok
        THEN [res |-> created, how |-> "create", fs |-> fs,
              requests |-> {}, fault |-> NoFaults]
        ELSE [res |-> created, how |-> "created", fs |-> fs,
              requests |-> {}, fault |-> NoFaults]

\* the Err(_) arm of the match of load_or_create_index: create_index, then save
create_and_save(fs, env) ==
    LET created == create_index(fs.ratings, fs.basics, env.order)
    IN  IF ~created.ok
        THEN [res |-> created, how |-> "create", fs |-> fs,
              requests |-> {}, fault |-> NoFaults]
        ELSE
        LET saved == save(created.val, fs.index, FaultAt(env.fault, "index"),
                          Min(env.cut, Len(serialize(created.val)) - 1))
            fs2 == [fs EXCEPT !.index = saved.file]
        IN  IF ~saved.res.ok
            THEN [res |-> saved.res, how |-> "save", fs |-> fs2,
                  requests |-> {}, fault |-> env.fault]
            ELSE [res |-> created, how |-> "created", fs |-> fs2,
                  requests |-> {}, fault |-> NoFaults]

\* mutant: the index is built and saved whether the snapshot loads or not
load_or_create_index_rebuilding(fs, remote, env) ==
    IF FaultAt(env.fault, "dir") = "create"
    THEN [res |-> Err("Io"), how |-> "dir", fs |-> fs, requests |-> {}, fault |-> env.fault]
    ELSE
    LET checked == check_source_files(fs, remote, env.fault, env.cut)
        fs1 == [fs EXCEPT !.basics = checked.basics, !.ratings = checked.ratings]
    IN  IF ~checked.res.ok
        THEN [res |-> checked.res, how |-> "sources", fs |-> fs1,
              requests |-> checked.requests, fault |-> env.fault]
        ELSE [create_and_save(fs1, env) EXCEPT !.requests = checked.requests]

\* Imdb::load_or_create_index.  fs is the directory (basics, ratings, index),
\* remote the two files on the server, env the fault, the cut and the order
\* in which the title table is iterated.  how tells the arm of the match.
load_or_create_index(fs, remote, env) ==
    IF FaultAt(env.fault, "dir") = "create"
    THEN [res |-> Err("Io"), how |-> "dir", fs |-> fs, requests |-> {}, fault |-> env.fault]
    ELSE
    LET checked == check_source_files(fs, remote, env.fault, env.cut)
        fs1 == [fs EXCEPT !.basics = checked.basics, !.ratings = checked.ratings]
    IN  IF ~checked.res.ok
        THEN [res |-> checked.res, how |-> "sources", fs |-> fs1,
              requests |-> checked.requests, fault |-> env.fault]
        ELSE
        LET loaded == load_index(fs1.index)
        IN  IF loaded.ok
            THEN [res |-> loaded, how |-> "loaded", fs |-> fs1,
                  requests |-> checked.requests, fault |-> NoFaults]
            ELSE [create_and_save(fs1, env) EXCEPT !.requests = checked.requests]

-----------------------------------------------------------------------------
(* The files and queries of the model *)

\* the longest source file, in rows
MaxRows == 2

SeqsUpTo(S, n) == UNION {[1..k -> S] : k \in 0..n}

TT1 == <<"t","t","1">>
TT2 == <<"t","t","2">>
TT3 == <<"t","t","3">>
Heat == <<"H","e","a","t">>
HeatDot == <<"H","e","a","t",".">>
Heat2 == <<"H","e","a","t"," ","2">>
Hitze == <<"H","i","t","z","e">>
Y1999 == <<"1","9","9","9">>
Y2000 == <<"2","0","0","0">>
Y2001 == <<"2","0","0","1">>
Minutes == <<"9","0">>
Zero == <<"0">>
ManyVotes == <<"5","0","0","0","0","0">>
FewVotes == <<"2","0","0","0","0">>

BasicsRow(id, kind, primary, original, adult, year, runtime) ==
    [tconst |-> id, titleType |-> kind, primaryTitle |-> primary,
     originalTitle |-> original, isAdult |-> adult, startYear |-> year,
     runtimeMinutes |-> runtime]

RatingsRow(id, votes) == [tconst |-> id, numVotes |-> votes]

\* rows that pass every filter
CleanBasicsRows ==
    { BasicsRow(TT1, "movie", Heat, Heat, Zero, Y1999, Minutes),
      BasicsRow(TT2, "tvMovie", HeatDot, HeatDot, Zero, Y2000, Minutes),
      BasicsRow(TT3, "movie", Heat, Heat, Zero, Y1999, Minutes),
      BasicsRow(TT3, "movie", Heat2, Hitze, Zero, Y2001, Minutes) }

\* one ratings row for each of the three ids: many or few votes for the
\* first two, many for the third
CleanRatingsFiles ==
    { << RatingsRow(TT1, v[1]), RatingsRow(TT2, v[2]), RatingsRow(TT3, ManyVotes) >> :
        v \in [1..2 -> {ManyVotes, FewVotes}] }

QueryTexts ==
    { <<"h","e","a","t">>,
      <<"h","e","a","t",".">>,
      <<"h","e","a","t"," ","2">>,
      <<"H","e","a","t">>,
      <<"h","e","a">>,
      <<"h","i","t","z","e">>,
      <<"h","e","a","t"," ","2"," ","h","e","a","t">> }

\* parse_movie reads a year from a four-digit token
QueryYears == {None, Some(1999), Some(2000)}

\* Rows for the ingestion: rows that pass, a row for each filter, and rows
\* with a field that does not parse.
TTX == <<"t","t","x">>
BadYear == <<"1","9","x","9">>
One == <<"1">>
Votes49 == <<"4","9">>
Votes50 == <<"5","0">>
BadVotes == <<"5","x">>

DirtyBasicsRows ==
    { BasicsRow(TT1, "movie", Heat, Heat, Zero, Y1999, Minutes),
      BasicsRow(TT2, "short", Heat2, Hitze, Zero, Y2001, Minutes),
      BasicsRow(TT2, "movie", HeatDot, HeatDot, One, Y2000, Minutes),
      BasicsRow(TT1, "tvSeries", Heat, Heat, Zero, Y1999, Minutes),
      BasicsRow(TT2, "movie", Heat, Heat, Zero, BadYear, Minutes),
      BasicsRow(TT1, "movie", Heat, Heat, Zero, Y1999, Zero),
      BasicsRow(TT2, "video", Heat, Heat, Zero, Zero, Minutes),
      BasicsRow(TTX, "movie", Heat, Heat, Zero, Y1999, Minutes),
      BasicsRow(TTX, "movie", Heat, Heat, NullField, Y1999, NullField) }

DirtyRatingsRows ==
    { RatingsRow(TT1, ManyVotes),
      RatingsRow(TT2, Votes49),
      RatingsRow(TT2, Votes50),
      RatingsRow(TT1, BadVotes),
      RatingsRow(TTX, ManyVotes) }

FilterBasicsRows ==
    { BasicsRow(TT1, "movie", Heat, Heat, Zero, Y1999, Minutes),
      BasicsRow(TT2, "short", Heat2, Hitze, Zero, Y2001, Minutes),
      BasicsRow(TT2, "tvMovie", HeatDot, HeatDot, Zero, Y2000, Minutes),
      BasicsRow(TTX, "movie", Heat, Heat, Zero, Y1999, Minutes) }

FilterRatingsRows ==
    { RatingsRow(TT1, ManyVotes),
      RatingsRow(TT2, Votes49),
      RatingsRow(TT2, Votes50),
      RatingsRow(TT1, BadVotes) }

IngestQueryTexts == { <<"h","e","a","t">>, <<"h","e","a","t"," ","2">> }

\* The files on the server, which change from day to day: two title lists
\* and one with an id that does not parse; a ratings file for every title
\* and one for the first title only.
RemoteBasicsFiles ==
    { << BasicsRow(TT1, "movie", Heat, Heat, Zero, Y1999, Minutes),
         BasicsRow(TT2, "tvMovie", HeatDot, HeatDot, Zero, Y2000, Minutes) >>,
      << BasicsRow(TT3, "movie", Heat2, Hitze, Zero, Y2001, Minutes) >>,
      << BasicsRow(TTX, "movie", Heat, Heat, Zero, Y1999, Minutes) >> }

RemoteRatingsFiles ==
    { << RatingsRow(TT1, ManyVotes), RatingsRow(TT2, ManyVotes),
         RatingsRow(TT3, ManyVotes) >>,
      << RatingsRow(TT1, FewVotes) >> }

\* the files a call can be sent: one for each file it has to fetch
Remotes(basics, ratings) ==
    [basics : IF IsSome(basics) THEN {<< >>} ELSE RemoteBasicsFiles,
     ratings : IF IsSome(ratings) THEN {<< >>} ELSE RemoteRatingsFiles]

\* the steps of a call that the disk or the network can fail: a file that
\* exists is not fetched
StoreFaults(basics, ratings) ==
    { NoFaults, <<"dir", "create">>, <<"index", "create">>, <<"index", "write">> }
    \cup (IF IsSome(basics) THEN {}
          ELSE {<<"basics", "create">>, <<"basics", "send">>, <<"basics", "copy">>})
    \cup (IF IsSome(ratings) THEN {}
          ELSE {<<"ratings", "create">>, <<"ratings", "send">>, <<"ratings", "copy">>})

SaveFaults == { NoFaults, <<"index", "create">>, <<"index", "write">> }

\* the most rows or items that a copy or a write leaves before it stops
MaxCut == 1

\* where the step of failing can stop: only a copy or a write stops half way
Cuts(failing) == IF failing[2] \in {"copy", "write"} THEN 0..MaxCut ELSE {0}

\* The texts handed to text_to_tags: letters of the stopwords a, t and to,
\* a letter of no stopword, an upper case letter and two split characters.
TagChars == {"a", "t", "o", "x", "T", " ", "."}

\* the longest text, in characters
MaxText == 5

\* the pieces file names are made of: a word, two years, a metadata token,
\* and separators
NamePieces ==
    {Heat, <<"1","9","9","5">>, <<"2","0","1","1">>, <<"1","0","8","0","p">>,
     <<" ">>, <<"[">>, <<"]">>}

\* the longest file name, in pieces
MaxPieces == 5

RECURSIVE Flatten(_)
Flatten(pieces) ==
    IF pieces = << >> THEN << >> ELSE Head(pieces) \o Flatten(Tail(pieces))

-----------------------------------------------------------------------------
(* The state machine *)

\* The calls are made one at a time by a single thread: a call starts when
\* the record of the call before it has been dropped.
Idle == query = None

NoLookup ==
    /\ query' = None
    /\ counter' = EmptyMap
    /\ common' = << >>
    /\ result' = [panic |-> FALSE, title |-> None]

\* no request is sent and no disk or network step fails
NoFault ==
    /\ requests' = {}
    /\ fault' = NoFaults

InitProcess ==
    /\ imdb = None
    /\ status = "none"
    /\ call = "none"
    /\ requests = {}
    /\ fault = NoFaults
    /\ snapshot = None
    /\ query = None
    /\ counter = EmptyMap
    /\ common = << >>
    /\ result = [panic |-> FALSE, title |-> None]

\* no text has been handed to text_to_tags on its own
NoTags ==
    /\ tagText = None
    /\ tagList = None

\* no file name has been handed to parse_movie
NoParse ==
    /\ filename = None
    /\ parsed = None

Init ==
    /\ ratingsFile \in {Some(f) : f \in CleanRatingsFiles}
    /\ basicsFile \in {Some(f) : f \in SeqsUpTo(CleanBasicsRows, MaxRows)}
    /\ InitProcess
    /\ NoTags
    /\ NoParse

\* the iteration orders of the title table that create_index can meet
BuildOrders ==
    LET titles == ReadSources(ratingsFile, basicsFile)
    IN  IF titles.ok THEN Orders(DOMAIN titles.val) ELSE {<< >>}

\* imdb = Imdb::create_index(index_dir)
CreateIndex ==
    /\ Idle
    /\ \E order \in BuildOrders :
          LET r == create_index(ratingsFile, basicsFile, order)
          IN  /\ imdb' = IF r.ok THEN Some(r.val) ELSE None
              /\ status' = IF r.ok THEN "created" ELSE r.err
    /\ call' = "create_index"
    /\ NoFault
    /\ NoLookup
    /\ UNCHANGED <<ratingsFile, basicsFile, snapshot>>
    /\ UNCHANGED <<tagVars, parseVars>>

\* imdb.save(index_path), met by one of faults
Save(faults) ==
    /\ Idle
    /\ IsSome(imdb)
    /\ \E f \in faults : \E cut \in Cuts(f) :
          LET r == save(Unwrap(imdb), snapshot, FaultAt(f, "index"),
                        Min(cut, Len(serialize(Unwrap(imdb))) - 1))
          IN  /\ snapshot' = r.file
              /\ status' = IF r.res.ok THEN "saved" ELSE r.res.err
              /\ fault' = f
    /\ call' = "save"
    /\ requests' = {}
    /\ UNCHANGED <<ratingsFile, basicsFile, imdb, query, counter, common, result>>
    /\ UNCHANGED <<tagVars, parseVars>>

\* imdb = Imdb::load_index(index_path)
LoadIndex ==
    /\ Idle
    /\ LET r == load_index(snapshot)
       IN  /\ imdb' = IF r.ok THEN Some(r.val) ELSE None
           /\ status' = IF r.ok THEN "loaded" ELSE r.err
    /\ call' = "load_index"
    /\ NoFault
    /\ NoLookup
    /\ UNCHANGED <<ratingsFile, basicsFile, snapshot>>
    /\ UNCHANGED <<tagVars, parseVars>>

\* imdb.lookup(text, year), for a text of texts and a year of years
Lookup(texts, years) ==
    /\ Idle
    /\ IsSome(imdb)
    /\ \E text \in texts, year \in years :
          LET db == Unwrap(imdb)
              tags == text_to_tags(text)
          IN  /\ query' = Some([text |-> text, year |-> year])
              /\ IF LookupPanics(db, tags)
                 THEN /\ counter' = EmptyMap
                      /\ common' = << >>
                      /\ result' = [panic |-> TRUE, title |-> None]
                 ELSE LET inner == CountTags(EmptyMap, db, tags, year)
                      IN  \E order \in Orders(DOMAIN inner) :
                             LET commonIds == most_common(inner, order)
                             IN  /\ counter' = inner
                                 /\ common' = commonIds
                                 /\ result' = [panic |-> FALSE,
                                               title |-> PickBest(db, text, year, commonIds)]
    /\ UNCHANGED <<ratingsFile, basicsFile, imdb, status, snapshot, call, requests, fault>>
    /\ UNCHANGED <<tagVars, parseVars>>

\* the caller is done with the Option<&Title> that lookup returned
Drop ==
    /\ ~Idle
    /\ NoLookup
    /\ UNCHANGED <<ratingsFile, basicsFile, imdb, status, snapshot, call, requests, fault>>
    /\ UNCHANGED <<tagVars, parseVars>>

\* imdb = Imdb::load_or_create_index(index_dir), with the server holding
\* remote and the call met by fault
LoadOrCreateIndex ==
    /\ Idle
    /\ \E remote \in Remotes(basicsFile, ratingsFile),
          f \in StoreFaults(basicsFile, ratingsFile) :
       \E cut \in Cuts(f) :
          LET fs == [basics |-> basicsFile, ratings |-> ratingsFile, index |-> snapshot]
              checked == check_source_files(fs, remote, f, cut)
              titles == ReadSources(checked.ratings, checked.basics)
          IN  \E order \in (IF titles.ok THEN Orders(DOMAIN titles.val) ELSE {<< >>}) :
                 \* r is what the call returns
                 \E r \in {load_or_create_index(fs, remote,
                              [fault |-> f, cut |-> cut, order |-> order])} :
                     /\ imdb' = IF r.res.ok THEN Some(r.res.val) ELSE None
                     /\ status' = IF r.res.ok THEN r.how ELSE r.res.err
                     /\ basicsFile' = r.fs.basics
                     /\ ratingsFile' = r.fs.ratings
                     /\ snapshot' = r.fs.index
                     /\ requests' = r.requests
                     /\ fault' = r.fault
    /\ call' = "load_or_create_index"
    /\ NoLookup
    /\ UNCHANGED <<tagVars, parseVars>>

\* a file of the index directory is removed by its owner
RemoveFile ==
    /\ Idle
    /\ \/ IsSome(basicsFile) /\ basicsFile' = None /\ UNCHANGED <<ratingsFile, snapshot>>
       \/ IsSome(ratingsFile) /\ ratingsFile' = None /\ UNCHANGED <<basicsFile, snapshot>>
       \/ IsSome(snapshot) /\ snapshot' = None /\ UNCHANGED <<basicsFile, ratingsFile>>
    /\ call' = "remove_file"
    /\ NoFault
    /\ UNCHANGED <<imdb, status, query, counter, common, result>>
    /\ UNCHANGED <<tagVars, parseVars>>

\* text_to_tags(tagText, &mut tagList)
TextToTags ==
    /\ IsSome(tagText)
    /\ tagList = None
    /\ tagList' = Some(text_to_tags(Unwrap(tagText)))
    /\ UNCHANGED <<ratingsFile, basicsFile, imdb, status, snapshot, query, counter,
                   common, result, call, requests, fault, tagText>>
    /\ UNCHANGED parseVars

\* (title, year) = parse_movie(filename)
ParseMovie ==
    /\ IsSome(filename)
    /\ parsed = None
    /\ parsed' = Some(parse_movie(Unwrap(filename)))
    /\ UNCHANGED <<ratingsFile, basicsFile, imdb, status, snapshot, query, counter,
                   common, result, call, requests, fault, filename>>
    /\ UNCHANGED tagVars

Next ==
    \/ CreateIndex
    \/ Save({NoFaults})
    \/ LoadIndex
    \/ Lookup(QueryTexts, QueryYears)
    \/ Drop

Spec == Init /\ [][Next]_vars

\* The ingestion of files with rows of every kind; a source file can be
\* missing.
InitIngest ==
    /\ ratingsFile \in {None} \cup {Some(f) : f \in SeqsUpTo(DirtyRatingsRows, MaxRows)}
    /\ basicsFile \in {None} \cup {Some(f) : f \in SeqsUpTo(DirtyBasicsRows, MaxRows)}
    /\ InitProcess
    /\ NoTags
    /\ NoParse

NextIngest ==
    \/ CreateIndex
    \/ Lookup(IngestQueryTexts, {None})
    \/ Drop

SpecIngest == InitIngest /\ [][NextIngest]_vars

\* The build from files of a few rows, some of them under the floor, of
\* several kinds, or with an id that does not parse; a source file can be
\* missing.
InitFilters ==
    /\ ratingsFile \in {None} \cup {Some(f) : f \in SeqsUpTo(FilterRatingsRows, MaxRows)}
    /\ basicsFile \in {None} \cup {Some(f) : f \in SeqsUpTo(FilterBasicsRows, MaxRows)}
    /\ InitProcess
    /\ NoTags
    /\ NoParse

NextFilters == CreateIndex

SpecFilters == InitFilters /\ [][NextFilters]_vars

\* The store in an index directory that starts empty: the source files are
\* fetched, the snapshot is written, loaded, and files are removed.
InitStore ==
    /\ ratingsFile = None
    /\ basicsFile = None
    /\ InitProcess
    /\ NoTags
    /\ NoParse

NextStore ==
    \/ LoadOrCreateIndex
    \/ CreateIndex
    \/ Save(SaveFaults)
    \/ LoadIndex
    \/ RemoveFile

SpecStore == InitStore /\ [][NextStore]_vars

\* text_to_tags on its own, for every text of up to MaxText characters
InitTags ==
    /\ tagText \in {Some(t) : t \in SeqsUpTo(TagChars, MaxText)}
    /\ tagList = None
    /\ ratingsFile = None
    /\ basicsFile = None
    /\ InitProcess
    /\ NoParse

NextTags == TextToTags

SpecTags == InitTags /\ [][NextTags]_vars

\* parse_movie on its own, for every file name of up to MaxPieces pieces
InitParse ==
    /\ filename \in {Some(Flatten(ps)) : ps \in SeqsUpTo(NamePieces, MaxPieces)}
    /\ parsed = None
    /\ ratingsFile = None
    /\ basicsFile = None
    /\ InitProcess
    /\ NoTags

NextParse == ParseMovie

SpecParse == InitParse /\ [][NextParse]_vars

-----------------------------------------------------------------------------
(* What the properties speak of *)

Db == Unwrap(imdb)
Q == Unwrap(query)

\* a lookup has returned, and with a record
Looked == IsSome(imdb) /\ IsSome(query) /\ ~result.panic
Returned == Looked /\ IsSome(result.title)
Winner == Db.titles[Unwrap(result.title)]

SeqToSet(seq) == {seq[i] : i \in 1..Len(seq)}

QueryTags == SeqToSet(text_to_tags(Q.text))

\* the tags of the titles of a record
TitleTags(title) ==
    SeqToSet(text_to_tags(title.primary_title))
    \cup (IF IsSome(title.original_title)
          THEN SeqToSet(text_to_tags(Unwrap(title.original_title))) ELSE {})

\* the record is no more than one year from the year of the query, if any
NearQueryYear(title) ==
    ~IsSome(Q.year) \/ Abs(Unwrap(Q.year) - title.year) <= 1

\* the records that a tag of the query hits and the year window keeps
Hit ==
    {id \in DOMAIN Db.titles :
        /\ \E tag \in QueryTags : tag \in DOMAIN Db.index /\ id \in Db.index[tag]
        /\ NearQueryYear(Db.titles[id])}

ScoreOf(id) == scoring_func(Db.titles[id], Q.text, Q.year)
CommonSet == SeqToSet(common)
\* within 0.01 of the best score among the retained records
Band ==
    {id \in CommonSet : \A other \in CommonSet : (ScoreOf(other) - ScoreOf(id)) * 100 <= Scale}

-----------------------------------------------------------------------------
(* Properties of lookup *)

C2_Deterministic ==
    Looked =>
        \A order \in Orders(DOMAIN counter) :
            PickBest(Db, Q.text, Q.year, most_common(counter, order)) = result.title

\* C3: lookup returns a member of the tie band (the retained records whose
\* score is within 0.01 of the best score) and none of the band has more
\* votes; a band of one member returns that member.
C3_TieBandByVotes ==
    (Looked /\ CommonSet # {}) =>
        /\ Returned
        /\ Unwrap(result.title) \in Band
        /\ \A id \in Band : Winner.votes >= Db.titles[id].votes

\* C3 witness: the band has two members and the one returned for its votes
\* has not the best score.
C3_Witness ==
    /\ Returned
    /\ Cardinality(Band) >= 2
    /\ \E id \in Band :
          /\ ScoreOf(id) > ScoreOf(Unwrap(result.title))
          /\ Db.titles[id].votes < Winner.votes

MaxCount == CHOOSE n \in {counter[k] : k \in DOMAIN counter} :
                \A k \in DOMAIN counter : counter[k] <= n

\* C4: most_common returns exactly the keys whose count is the maximum, each
\* once, and nothing only when nothing was counted; the record that lookup
\* returns has the maximum count.
C4_MostCommonIsArgmax ==
    Looked =>
        /\ (common = << >>) <=> (DOMAIN counter = {})
        /\ DOMAIN counter # {} =>
              /\ CommonSet = {k \in DOMAIN counter : counter[k] = MaxCount}
              /\ Len(common) = Cardinality(CommonSet)
              /\ Returned /\ counter[Unwrap(result.title)] = MaxCount

\* C4 witness: two records were counted, one more often than the other.
C4_Witness ==
    /\ Returned
    /\ \E k \in DOMAIN counter : counter[k] < MaxCount

\* C5: lookup returns no match exactly when no record was counted (no tag
\* of the query is a key of the index, or every record of the buckets hit
\* failed the year window); otherwise it returns a record of the table.
C5_NoMatchIffNoHit ==
    Looked =>
        /\ (result.title = None) <=> (Hit = {})
        /\ IsSome(result.title) => Unwrap(result.title) \in DOMAIN Db.titles

\* C5 witness: a tag of the query is a key of the index, every record of
\* its bucket failed the year window, and lookup returned no match.
C5_Witness ==
    /\ Looked /\ result.title = None
    /\ \E tag \in QueryTags : tag \in DOMAIN Db.index

C7_ExactTagMatch ==
    Looked =>
        /\ IsSome(result.title) => TitleTags(Winner) \cap QueryTags # {}
        /\ (\A id \in DOMAIN Db.titles : TitleTags(Db.titles[id]) \cap QueryTags = {})
              => result.title = None

IsPrefix(p, t) == Len(p) <= Len(t) /\ SubSeq(t, 1, Len(p)) = p

\* C7 witness: a tag of the query is the beginning of an indexed tag without
\* being equal to it, and lookup returned no match.
C7_Witness ==
    /\ Looked /\ result.title = None
    /\ \E tag \in QueryTags : \E key \in DOMAIN Db.index : IsPrefix(tag, key) /\ tag # key

-----------------------------------------------------------------------------
(* Properties of the ingestion *)

RatingsRows == IF IsSome(ratingsFile) THEN SeqToSet(Unwrap(ratingsFile)) ELSE {}
BasicsRows == IF IsSome(basicsFile) THEN SeqToSet(Unwrap(basicsFile)) ELSE {}

Built == status = "created" /\ IsSome(imdb)

\* a numeric field that is there and does not parse
Unparsable(field, max) == field # NullField /\ ~IsSome(ParseUnsigned(field, max))

IdOf(row) == Unwrap(ParseId(row.tconst))

\* the ids with a ratings row of at least 50 votes
RatedIds ==
    {IdOf(r) : r \in {x \in RatingsRows :
        /\ IsSome(ParseId(x.tconst))
        /\ IsSome(ParseUnsigned(x.numVotes, U32Max))
        /\ Unwrap(ParseUnsigned(x.numVotes, U32Max)) >= 50}}

\* the adult, kind, year and runtime filters of the basics pass
PassesFilters(row) ==
    /\ IsSome(parse_none(row.isAdult, U8Max))
    /\ Unwrap(parse_none(row.isAdult, U8Max)) # 1
    /\ row.titleType \in {"movie", "tvMovie", "video", "short"}
    /\ IsSome(parse_none(row.startYear, U16Max))
    /\ Unwrap(parse_none(row.startYear, U16Max)) # 0
    /\ IsSome(parse_none(row.runtimeMinutes, U16Max))
    /\ Unwrap(parse_none(row.runtimeMinutes, U16Max)) # 0

\* the ids of the basics rows whose id parses
BasicsIds == {IdOf(r) : r \in {x \in BasicsRows : IsSome(ParseId(x.tconst))}}

\* C8: a title without a ratings row of at least 50 votes is in neither the
\* record table nor a bucket of a built index, and no lookup returns it;
\* every record of the table has at least 50 votes.
C8_VoteFloor ==
    Built =>
        /\ \A id \in DOMAIN Db.titles : Db.titles[id].votes >= 50
        /\ \A id \in BasicsIds \ RatedIds :
              /\ id \notin DOMAIN Db.titles
              /\ \A tag \in DOMAIN Db.index : id \notin Db.index[tag]
              /\ result.title # Some(id)

\* C8 witness: the index is built, a row that passes the filters of the
\* basics has only 49 votes, and a query made of the tags of its title has
\* returned.
C8_Witness ==
    /\ Built /\ Looked
    /\ \E row \in BasicsRows :
          /\ PassesFilters(row) /\ IsSome(ParseId(row.tconst))
          /\ IdOf(row) \notin RatedIds
          /\ \E r \in RatingsRows : r.tconst = row.tconst /\ r.numVotes = Votes49
          /\ QueryTags = SeqToSet(text_to_tags(row.primaryTitle))

\* C9: the record table holds exactly the ids of the basics rows that pass
\* every filter and are in the votes mapping; every record has a year and a
\* runtime that are not zero.
C9_RecordTableExact ==
    Built =>
        /\ DOMAIN Db.titles =
              {IdOf(r) : r \in {x \in BasicsRows :
                  PassesFilters(x) /\ IsSome(ParseId(x.tconst)) /\ IdOf(x) \in RatedIds}}
        /\ \A id \in DOMAIN Db.titles :
              Db.titles[id].year # 0 /\ Db.titles[id].runtime # 0

\* C9 witness: the table is built from a row that passes and a row that a
\* filter skips although its id has the votes.
C9_Witness ==
    /\ Built
    /\ DOMAIN Db.titles # {}
    /\ \E row \in BasicsRows :
          ~PassesFilters(row) /\ IsSome(ParseId(row.tconst)) /\ IdOf(row) \in RatedIds
             /\ IdOf(row) \notin DOMAIN Db.titles

\* a row with a numeric field that does not parse
MalformedRatingsRow(row) ==
    ~IsSome(ParseId(row.tconst)) \/ ~IsSome(ParseUnsigned(row.numVotes, U32Max))
MalformedBasicsRow(row) ==
    \/ ~IsSome(ParseId(row.tconst))
    \/ Unparsable(row.isAdult, U8Max)
    \/ Unparsable(row.startYear, U16Max)
    \/ Unparsable(row.runtimeMinutes, U16Max)

-----------------------------------------------------------------------------
(* Properties of the tokenizer *)

Tagged == IsSome(tagText) /\ IsSome(tagList)
TagsIn == Unwrap(tagText)
TagsOut == Unwrap(tagList)

\* C11: no tag occurs twice in the tags of a text, wherever in the text the
\* tag is repeated.
C11_NoTagTwice ==
    Tagged => \A i, j \in 1..Len(TagsOut) : i # j => TagsOut[i] # TagsOut[j]

\* the stopwords and the split characters as the contract lists them
ListedStopwords ==
    { <<"a">>, <<"a","n">>, <<"t","h","e">>, <<"o","f">>, <<"i","n">>,
      <<"o","n">>, <<"t","o">>, <<"t">>, <<"s">> }
ListedSplitChars ==
    {" ", "\t", "\n", "/", "<", ">", ":", "\"", "\\", "|", "?", "*",
     "_", "-", ".", ",", "'", "(", ")"}

\* C12: no tag of a text is empty, is a stopword, or holds a split character.
C12_TagsAreClean ==
    Tagged => \A i \in 1..Len(TagsOut) :
                 /\ TagsOut[i] # << >>
                 /\ TagsOut[i] \notin ListedStopwords
                 /\ \A k \in 1..Len(TagsOut[i]) : TagsOut[i][k] \notin ListedSplitChars

\* C12 witness: the text "To.ax", with a stopword in upper case and a split
\* character, has the one tag "ax".
C12_Witness ==
    /\ Tagged
    /\ TagsIn = <<"T", "o", ".", "a", "x">>
    /\ TagsOut = << <<"a", "x">> >>

\* the tags joined with single spaces
RECURSIVE Render(_)
Render(tags) ==
    IF tags = << >> THEN << >>
    ELSE IF Len(tags) = 1 THEN tags[1]
    ELSE tags[1] \o <<" ">> \o Render(Tail(tags))

\* C13: the tags of a text, joined with single spaces and handed to
\* text_to_tags again, come back the same and in the same order.
C13_Idempotent ==
    Tagged => text_to_tags(Render(TagsOut)) = TagsOut

\* C13 witness: the text "x.a o", with a tag on each side of a stopword,
\* which the joined tags "x o" do not spell again.
C13_Witness ==
    /\ Tagged
    /\ TagsIn = <<"x", ".", "a", " ", "o">>
    /\ TagsOut = << <<"x">>, <<"o">> >>
    /\ Render(TagsOut) # TagsIn

-----------------------------------------------------------------------------
(* Properties of the index and of the store *)

BucketIdsKnown(db) == \A tag \in DOMAIN db.index : db.index[tag] \subseteq DOMAIN db.titles

Opened == call = "load_or_create_index"

\* C14: every id in a bucket of the Imdb value that create_index, load_index
\* or load_or_create_index returned is a key of its record table.
C14_BucketIdsInTable ==
    IsSome(imdb) => BucketIdsKnown(Db)

\* C14 witness: load_or_create_index has returned an index with titles and
\* buckets that it loaded from the snapshot.
C14_Witness ==
    /\ Opened /\ status = "loaded" /\ IsSome(imdb)
    /\ DOMAIN Db.titles # {}
    /\ DOMAIN Db.index # {}

\* C15: the index that create_index built is the index that
\* build_reverse_index builds from the record table in every order of the
\* records: the same tags and, for each tag, the same ids.
C15_BuildOrderFree ==
    Built => \A order \in Orders(DOMAIN Db.titles) :
                build_reverse_index(Db.titles, order) = Db.index

\* C15 witness: an index built from two records that share a tag.
C15_Witness ==
    /\ Built
    /\ Cardinality(DOMAIN Db.titles) >= 2
    /\ \E tag \in DOMAIN Db.index : Cardinality(Db.index[tag]) >= 2

\* C16: load_index of the file that save has written returns the Imdb value
\* that was saved: the same record table and the same buckets.
C16_RoundTrip ==
    (call = "save" /\ status = "saved") => load_index(snapshot) = Ok(Db)

\* C16 witness: an index with a bucket of two ids, one of them a TV movie,
\* has been saved.
C16_Witness ==
    /\ call = "save" /\ status = "saved"
    /\ \E tag \in DOMAIN Db.index : Cardinality(Db.index[tag]) >= 2
    /\ \E id \in DOMAIN Db.titles : Db.titles[id].kind = "TvMovie"

\* the record table read from the source files as they are
SourcesNow == ReadSources(ratingsFile, basicsFile)

\* db is what create_index builds from the two files
BuiltFrom(db, ratings, basics) ==
    LET titles == ReadSources(ratings, basics)
    IN  /\ titles.ok
        /\ \E order \in Orders(DOMAIN titles.val) :
              create_index(ratings, basics, order) = Ok(db)

\* C17: when load_or_create_index finds no snapshot that loads and no disk or
\* network step fails, the load error is not returned: if the source files
\* can be read, the index built from them is returned and saved, and
\* load_index of the snapshot returns the same index; if not, the error of
\* the build is returned.
C17_LoadFailureRebuilds ==
    [][ (call' = "load_or_create_index" /\ ~load_index(snapshot).ok
            /\ fault' = NoFaults) =>
          IF ReadSources(ratingsFile', basicsFile').ok
          THEN /\ status' = "created"
               /\ IsSome(imdb')
               /\ BuiltFrom(Unwrap(imdb'), ratingsFile', basicsFile')
               /\ load_index(snapshot') = Ok(Unwrap(imdb'))
          ELSE /\ imdb' = None
               /\ status' = ReadSources(ratingsFile', basicsFile').err
               /\ snapshot' = snapshot ]_vars

\* C17 witness: load_or_create_index has built and saved an index with
\* titles from source files that were there already.
C17_Witness ==
    /\ Opened /\ status = "created" /\ requests = {}
    /\ IsSome(imdb) /\ DOMAIN Db.titles # {}
    /\ load_index(snapshot) = Ok(Db)

\* a snapshot that holds the two lengths and as many entries as they tell
WholeSnapshot(bytes) ==
    /\ Len(bytes) >= 2
    /\ Len(bytes) >= 2 + bytes[1][1]
    /\ Len(bytes) = 2 + bytes[1][1] + bytes[2 + bytes[1][1]][1]

\* C18: load_or_create_index has returned either an index that is whole (its
\* bucket ids are in its table, it is what the whole snapshot holds and, when
\* it was built, what the source files give) or an error and no index; an
\* error only if a disk or network step failed or if neither the snapshot
\* loads nor the source files can be read.
C18_WholeIndexOrError ==
    Opened =>
        IF IsSome(imdb)
        THEN /\ status \in {"loaded", "created"}
             /\ BucketIdsKnown(Db)
             /\ IsSome(snapshot) /\ WholeSnapshot(Unwrap(snapshot))
             /\ load_index(snapshot) = Ok(Db)
             /\ status = "created" => BuiltFrom(Db, ratingsFile, basicsFile)
        ELSE /\ status \in {"Bincode", "Csv", "Io", "ParseIntError", "Reqwest"}
             /\ \/ fault # NoFaults
                \/ ~load_index(snapshot).ok /\ ~SourcesNow.ok

\* C18 witness: no step failed, the snapshot does not load and a source file
\* has an id that does not parse: the error is returned and no index.
C18_Witness ==
    /\ Opened /\ imdb = None /\ fault = NoFaults
    /\ status = "ParseIntError"
    /\ ~load_index(snapshot).ok

\* C19: a call of load_or_create_index sends no request for a source file
\* that is there when the call starts, and leaves the file as it is.
C19_ExistingSourceKept ==
    [][ call' = "load_or_create_index" =>
          /\ IsSome(basicsFile) => ("basics" \notin requests' /\ basicsFile' = basicsFile)
          /\ IsSome(ratingsFile) => ("ratings" \notin requests' /\ ratingsFile' = ratingsFile)
      ]_vars

\* C19 witness: a call has fetched the ratings and not the basics, which
\* were there as a file that breaks off.
C19_Witness ==
    /\ Opened /\ requests = {"ratings"}
    /\ IsSome(basicsFile) /\ IsSome(ratingsFile)
    /\ \E i \in 1..Len(Unwrap(basicsFile)) : IsStreamError(Unwrap(basicsFile)[i])

\* C20: the index that load_or_create_index returns from the snapshot is the
\* index of the source files as they are, when they can be read: after a
\* source file has changed, the old snapshot is not returned.
C20_StaleSnapshotRebuilt ==
    (Opened /\ status = "loaded" /\ SourcesNow.ok) =>
        BuiltFrom(Db, ratingsFile, basicsFile)

-----------------------------------------------------------------------------
(* Properties of the buckets, of the counts and of the scores *)

\* C24: after a build the keys of the index are the tags of the titles of
\* the records, and the bucket of a tag holds exactly the ids of the records
\* with that tag in the primary title or in the original title that
\* differs from it; no bucket is empty.
C24_BucketsExact ==
    Built =>
        /\ DOMAIN Db.index = UNION {TitleTags(Db.titles[id]) : id \in DOMAIN Db.titles}
        /\ \A tag \in DOMAIN Db.index :
              /\ Db.index[tag] = {id \in DOMAIN Db.titles : tag \in TitleTags(Db.titles[id])}
              /\ Db.index[tag] # {}

\* C24 witness: an index built from two records, one of them with an
\* original title whose tag is in no primary title, and a bucket that does
\* not hold every record.
C24_Witness ==
    /\ Built
    /\ Cardinality(DOMAIN Db.titles) = 2
    /\ \E id \in DOMAIN Db.titles :
          /\ IsSome(Db.titles[id].original_title)
          /\ \E tag \in SeqToSet(text_to_tags(Unwrap(Db.titles[id].original_title))) :
                /\ tag \notin SeqToSet(text_to_tags(Db.titles[id].primary_title))
                /\ Db.index[tag] = {id}

\* the tags of the query that index the record
HittingTags(id) ==
    {tag \in QueryTags : tag \in DOMAIN Db.index /\ id \in Db.index[tag]}

\* C25: the count that lookup gives a record is the number of distinct tags
\* of the query that index it: a word repeated in the query does not count
\* twice.
C25_CountIsDistinctHits ==
    Looked => \A id \in DOMAIN counter : counter[id] = Cardinality(HittingTags(id))

\* C26: the score of every scored record is the score it has for the query
\* text in lower case, and so is the record returned.
C26_CaseInsensitive ==
    Looked =>
        /\ \A id \in CommonSet :
              ScoreOf(id) = scoring_func(Db.titles[id], to_lowercase(Q.text), Q.year)
        /\ result.title \in
              {PickBest(Db, to_lowercase(Q.text), Q.year, most_common(counter, order)) :
                  order \in Orders(DOMAIN counter)}

\* the greater of the similarities of the text with the two titles
BaseScore(title, text) ==
    IF ~IsSome(title.original_title)
    THEN jaro(to_lowercase(title.primary_title), text)
    ELSE Max(jaro(to_lowercase(title.primary_title), text),
             jaro(to_lowercase(Unwrap(title.original_title)), text))

\* the base score with the kind factor, and with the year factor if penalised
Factored(title, text, penalised) ==
    LET yeared == IF penalised THEN (BaseScore(title, text) * 85) \div 100
                  ELSE BaseScore(title, text)
    IN  IF title.kind = "Movie" THEN yeared ELSE (yeared * 80) \div 100

C30_TopScoreAmongEqualVotes ==
    Returned =>
        \A id \in Band :
            Db.titles[id].votes = Winner.votes => ScoreOf(id) <= ScoreOf(Unwrap(result.title))

-----------------------------------------------------------------------------
(* Properties of the filters *)

\* the floors around the cutoff of the code
Floors == {VoteFloor - 1, VoteFloor, VoteFloor + 1}

\* the filters: a floor and a set of accepted kinds
Filters == Floors \X SUBSET AcceptedKinds

\* filter t accepts no more than filter s
Tighter(t, s) == t[1] >= s[1] /\ t[2] \subseteq s[2]

TableWith(filter) == ReadSourcesWith(ratingsFile, basicsFile, filter[1], filter[2])

\* the outcome of the build under every filter, each computed once
Tables == [filter \in Filters |-> TableWith(filter)] @@ << >>

\* C21: for the source files of a create_index call, a build under a filter
\* with a higher vote floor or fewer accepted kinds than another, which
\* yields a record table, yields a table too and its ids are among the ids
\* of the other; the table of the call is the one of the floor of 50 and of
\* the four kinds of the code.
C21_FiltersMonotonic ==
    call = "create_index" =>
        \E tables \in {Tables} :
            /\ \A s \in Filters :
                  tables[s].ok =>
                      \A t \in {f \in Filters : Tighter(f, s)} :
                          /\ tables[t].ok
                          /\ DOMAIN tables[t].val \subseteq DOMAIN tables[s].val
            /\ \E coded \in {tables[<<VoteFloor, AcceptedKinds>>]} :
                  IF coded.ok THEN Built /\ Db.titles = coded.val
                  ELSE imdb = None /\ status = coded.err

\* C21 witness: create_index has built a table of two records, of which a
\* higher floor drops one and the removal of a kind the other.
C21_Witness ==
    /\ call = "create_index" /\ Built
    /\ Cardinality(DOMAIN Db.titles) = 2
    /\ Cardinality(DOMAIN TableWith(<<VoteFloor + 1, AcceptedKinds>>).val) = 1
    /\ Cardinality(DOMAIN TableWith(<<VoteFloor, AcceptedKinds \ {"movie"}>>).val) = 1
    /\ TableWith(<<VoteFloor + 1, AcceptedKinds \ {"movie"}>>).val = EmptyMap

-----------------------------------------------------------------------------
(* Properties of the downloads *)

\* C28: after a call of load_or_create_index that failed on the request or
\* on the copy of a source file, no file is at the destination of that
\* download.
C28_FailedDownloadLeavesNoFile ==
    (Opened /\ status = "Reqwest") =>
        /\ fault[1] = "basics" => basicsFile = None
        /\ fault[1] = "ratings" => ratingsFile = None

\* C29 as stated: with a snapshot that loads, a call of load_or_create_index
\* that can create the directory returns the index of the snapshot, also
\* when a source file is missing and its download fails.
C29_ValidSnapshotNeedsNoNetwork ==
    [][ (call' = "load_or_create_index" /\ load_index(snapshot).ok /\ fault'[1] # "dir") =>
          /\ status' = "loaded"
          /\ imdb' = Some(load_index(snapshot).val)
      ]_vars

\* C29 amended: with a snapshot that loads, a call of load_or_create_index
\* leaves the snapshot as it is; it returns the index of the snapshot
\* without a build when the directory is created and every missing source
\* file is fetched, and it fails with the error of the directory or of the
\* download of a source file that was missing otherwise.
C29_ValidSnapshotLoadedAfterSources ==
    [][ (call' = "load_or_create_index" /\ load_index(snapshot).ok) =>
          /\ snapshot' = snapshot
          /\ fault' = NoFaults =>
                /\ status' = "loaded"
                /\ imdb' = Some(load_index(snapshot).val)
                /\ IsSome(basicsFile') /\ IsSome(ratingsFile')
          /\ fault' # NoFaults =>
                /\ imdb' = None
                /\ status' \in {"Io", "Reqwest"}
                /\ fault'[1] \in {"dir", "basics", "ratings"}
                /\ fault'[1] = "basics" => basicsFile = None
                /\ fault'[1] = "ratings" => ratingsFile = None
      ]_vars

\* C29 witness: a call has failed on the request for a source file that was
\* missing, with a snapshot in the directory that loads.
C29_Witness ==
    /\ Opened /\ status = "Reqwest" /\ fault[2] = "send"
    /\ load_index(snapshot).ok
    /\ imdb = None

-----------------------------------------------------------------------------
(* Properties of parse_movie *)

Name == Unwrap(filename)
Parsed == Unwrap(parsed)

\* C22: the year parse_movie returns is the rightmost token of four digits
\* and the title is made of the tokens before that token or before the first
\* metadata token, whichever comes first; when the rightmost token of four
\* digits is the first token, or there is none, no year is returned and the
\* title is made of the tokens before the first metadata token, the year
\* token among them.
C22_RightmostYearAndTitle ==
    IsSome(parsed) =>
        LET tokens == parse_filename(Name)
            years == YearCandidates(tokens)
            stop == FirstMetadataToken(tokens)
        IN  IF years # {} /\ SetMax(years) > 1
            THEN /\ Parsed.year = Some(Unwrap(ParseUnsigned(tokens[SetMax(years)], U32Max)))
                 /\ Parsed.title = Join(SubSeq(tokens, 1, Min(SetMax(years), stop) - 1))
            ELSE /\ Parsed.year = None
                 /\ Parsed.title = Join(SubSeq(tokens, 1, stop - 1))

\* the bracket that closes c
Closer(c) == IF c = "[" THEN "]" ELSE ")"

\* the file name without the bracketed groups and the separators that come
\* before its first normal word
RECURSIVE WithoutReleaseName(_)
WithoutReleaseName(name) ==
    IF name = << >> THEN name
    ELSE IF Head(name) \in {"[", "("} /\ \E i \in 2..Len(name) : name[i] = Closer(Head(name))
         THEN WithoutReleaseName(
                  SubSeq(name,
                         SetMin({i \in 2..Len(name) : name[i] = Closer(Head(name))}) + 1,
                         Len(name)))
    ELSE IF Head(name) \in FilenameSeparators THEN WithoutReleaseName(Tail(name))
    ELSE name

\* C23: the title parse_movie returns is the title of the file name without
\* the bracketed groups that come before the first normal word: a release
\* name in brackets in front of the title is not part of the title.
C23_ReleaseNameIgnored ==
    IsSome(parsed) => Parsed.title = parse_movie(WithoutReleaseName(Name)).title

=============================================================================
